---- MODULE Spec2Model ----
(***************************************************************************)
(* Model of the OreSat C3 watchdog daemon (src/main.rs): a single-threaded *)
(* mio reactor that toggles a GPIO line (Petter), watches a UDP heartbeat  *)
(* socket with an inactivity timerfd (Pingee) and exits on a signalfd.     *)
(*                                                                         *)
(* Time is CLOCK_MONOTONIC in milliseconds.  It passes only while main is   *)
(* blocked in poll(), and then up to the next expiry of a timerfd (Tick):   *)
(* datagrams and signals arrive at those instants, in any order with the    *)
(* expiries.                                                                *)
(***************************************************************************)
EXTENDS Naturals, Sequences, FiniteSets

\* ---------------------------------------------------------------- constants
\* Expiration constants of main.rs, in milliseconds.
INHIBIT == 120000
PING_TIMEOUT == 30000
PET_ON == 100
PET_OFF == 900

GPIO_LABEL == "PET_WDT"

\* mio tokens of main
PING == 0
PET == 1
TIMEOUT == 2
SIGNAL == 3

\* The signals of the mask built in main
SIGTERM == "SIGTERM"
SIGHUP == "SIGHUP"
SIGINT == "SIGINT"
Mask == {SIGTERM, SIGHUP, SIGINT}

\* ------------------------------------------------------------------- bounds
\* Datagrams the heartbeat socket's receive queue holds in the model.
MaxQueue == 2
\* The ghost count of successful pet() calls is kept below this (parity kept).
MaxPets == 3

\* The gaps (ms) at which the heartbeat sender of GapSpec sends: at once, one
\* pet phase later, in the middle of the window, and the longest gaps below
\* PING_TIMEOUT that fall on an instant of the clock.
Gaps == {0, 100, 15000, 29100, 29900}

\* Labels the GPIO line may carry in the chip (the expected one and another).
Labels == {GPIO_LABEL, "OTHER"}

VARIABLES
  pc,          \* position of main: a startup step, "poll", "dispatch", "exited"
  result,      \* how main ended ("none" while it runs): "Ok", the error
               \* "Ping timeout", a startup, handler or poll error, or "Killed"
  lineLabel,   \* the label stored for GPIO_LINE in the chip
  line,        \* level of the watchdog line (TRUE = active)
  petter,      \* "none" | "alive" | "dropped": the Petter value of main
  values,      \* Petter.values: index (1 or 2) of the item next() yields
  petTimer,    \* Petter.timer  (timerfd)
  sockQueue,   \* datagrams queued on Pingee.socket
  sockBound,   \* Pingee.socket is bound
  pingTimer,   \* Pingee.timer  (timerfd)
  sigBlocked,  \* mask.thread_block() has run
  sigPending,  \* a signal of the mask is pending: the SignalFd is readable
  registered,  \* tokens registered with the poller
  ready,       \* tokens with an unreported readiness edge
  events,      \* the batch poll() returned, not yet dispatched (a sequence)
  petCount,    \* ghost: successful pet() calls (parity-preserving above MaxPets)
  dropOk,      \* ghost: the write of Petter::drop succeeded
  beats,       \* ghost: kinds of heartbeat dispatch seen: "early" (remaining
               \* >= PING_TIMEOUT when handled), "late" (remaining below it)
  sigInLoop,   \* ghost: a signal was received while main was in the loop
  last,        \* ghost: the last step of main and what it saw
  sinceBeat    \* ghost, kept under GapSpec only (0 elsewhere): the time since
               \* the last heartbeat was handled, or since startup; it stays
               \* at PING_TIMEOUT once it has reached it

vars == <<pc, result, lineLabel, line, petter, values, petTimer, sockQueue,
          sockBound, pingTimer, sigBlocked, sigPending, registered, ready,
          events, petCount, dropOk, beats, sigInLoop, last, sinceBeat>>

\* ------------------------------------------------------------------ timerfd
\* A one-shot timerfd: the value it was last set to, the time elapsed since,
\* and whether an expiration is waiting to be read.
TimerNew == [set |-> 0, elapsed |-> 0, expired |-> FALSE]

\* timerfd_settime(OneShot(d)): arms the timer and clears a pending expiration
TimerSet(d) == [set |-> d, elapsed |-> 0, expired |-> FALSE]

\* timerfd_gettime: time left until expiry; 0 for a disarmed or expired timer
\* (TimerFd::get maps 0 to None).
TimerGet(t) == t.set - t.elapsed

TimerArmed(t) == t.elapsed < t.set

\* d units of the clock passing: an armed timer expires once its value elapsed
TimerTick(t, d) ==
  IF TimerArmed(t)
    THEN IF t.elapsed + d >= t.set
           THEN [t EXCEPT !.elapsed = t.set, !.expired = TRUE]
           ELSE [t EXCEPT !.elapsed = @ + d]
    ELSE t

\* TimerFd::wait(): read() consumes the expiration
TimerWait(t) == [t EXCEPT !.expired = FALSE]

\* ------------------------------------------------------------------ Petter
\* mutant of ValuesCycle: the two durations are paired with the wrong levels
ValuesCycle_Swapped == << [value |-> TRUE, duration |-> PET_OFF],
                          [value |-> FALSE, duration |-> PET_ON] >>

\* [(true, PET_ON), (false, PET_OFF)].into_iter().cycle()
ValuesCycle == << [value |-> TRUE, duration |-> PET_ON],
                  [value |-> FALSE, duration |-> PET_OFF] >>

\* mutant of ValuesNext: the iterator yields its item without advancing
ValuesNext_Stuck(i) == [item |-> ValuesCycle[i], pos |-> i]

\* Cycle::next(): the item yielded, and the iterator's next position
ValuesNext(i) == [item |-> ValuesCycle[i], pos |-> (i % Len(ValuesCycle)) + 1]

\* Lines::set_values([v]): the level of the line after the call
SetValues(level, v, ok) == IF ok THEN v ELSE level

\* mutant of Drop: the destructor leaves the line as it is
Drop_NoWrite(level, ok) == level

\* impl Drop for Petter: let _ = self.hand.set_values([false])
Drop(level, ok) == SetValues(level, FALSE, ok)

\* mutant of pet: the level is written but the timer is not armed again
pet_NoArm(i, lv, t, fail) ==
  LET n == ValuesNext(i) IN
  IF fail = "set_values"
    THEN [ok |-> FALSE, values |-> n.pos, line |-> SetValues(lv, n.item.value, FALSE),
          timer |-> t, err |-> fail]
    ELSE [ok |-> TRUE, values |-> n.pos, line |-> SetValues(lv, n.item.value, TRUE),
          timer |-> t, err |-> "none"]

\* Outcome of Petter::pet() from iterator position i, line level lv and timer t.
\* fail names the call that fails: "set_values", "set" (timer.set), or "none".
pet(i, lv, t, fail) ==
  LET n == ValuesNext(i) IN
  IF fail = "set_values"
    THEN [ok |-> FALSE, values |-> n.pos, line |-> SetValues(lv, n.item.value, FALSE),
          timer |-> t, err |-> fail]
  ELSE IF fail = "set"
    THEN [ok |-> FALSE, values |-> n.pos, line |-> SetValues(lv, n.item.value, TRUE),
          timer |-> t, err |-> fail]
    ELSE [ok |-> TRUE, values |-> n.pos, line |-> SetValues(lv, n.item.value, TRUE),
          timer |-> TimerSet(n.item.duration), err |-> "none"]

\* Outcome of Petter::on_pet(): timer.wait()? then pet().  fail = "wait": the
\* read of the timerfd fails (as it does when no expiration is waiting).
on_pet(i, lv, t, fail) ==
  IF fail = "wait" \/ ~t.expired
    THEN [ok |-> FALSE, values |-> i, line |-> lv, timer |-> t, err |-> "wait"]
    ELSE pet(i, lv, TimerWait(t), fail)

\* ------------------------------------------------------------------ Pingee
\* mutant of Drain: on_ping receives one datagram instead of looping
Drain_One(q) == IF q > 0 THEN q - 1 ELSE q

\* The recv_from loop of on_ping: receive until WouldBlock; the queue left.
RECURSIVE Drain(_)
Drain(q) == IF q > 0 THEN Drain(q - 1) ELSE q

\* mutants of on_ping: the timer is re-armed whatever time is left; ...
on_ping_AlwaysRearm(q, t, fail, k) ==
  IF fail = "recv"
    THEN [ok |-> FALSE, queue |-> q - k, timer |-> t, err |-> fail]
  ELSE IF fail = "get"
    THEN [ok |-> FALSE, queue |-> Drain(q), timer |-> t, err |-> fail]
  ELSE IF TimerGet(t) = 0
    THEN [ok |-> FALSE, queue |-> Drain(q), timer |-> t, err |-> "unexpected"]
  ELSE IF fail = "set"
    THEN [ok |-> FALSE, queue |-> Drain(q), timer |-> t, err |-> fail]
    ELSE [ok |-> TRUE, queue |-> Drain(q), timer |-> TimerSet(PING_TIMEOUT),
          err |-> "none"]

\* ... the time left is compared with INHIBIT instead of PING_TIMEOUT; ...
on_ping_WrongThreshold(q, t, fail, k) ==
  IF fail = "recv"
    THEN [ok |-> FALSE, queue |-> q - k, timer |-> t, err |-> fail]
  ELSE IF fail = "get"
    THEN [ok |-> FALSE, queue |-> Drain(q), timer |-> t, err |-> fail]
  ELSE IF TimerGet(t) = 0
    THEN [ok |-> FALSE, queue |-> Drain(q), timer |-> t, err |-> "unexpected"]
  ELSE IF TimerGet(t) < INHIBIT
    THEN IF fail = "set"
      THEN [ok |-> FALSE, queue |-> Drain(q), timer |-> t, err |-> fail]
      ELSE [ok |-> TRUE, queue |-> Drain(q), timer |-> TimerSet(PING_TIMEOUT),
            err |-> "none"]
  ELSE [ok |-> TRUE, queue |-> Drain(q), timer |-> t, err |-> "none"]

\* ... the timer is re-armed to INHIBIT instead of PING_TIMEOUT.
on_ping_RearmInhibit(q, t, fail, k) ==
  IF fail = "recv"
    THEN [ok |-> FALSE, queue |-> q - k, timer |-> t, err |-> fail]
  ELSE IF fail = "get"
    THEN [ok |-> FALSE, queue |-> Drain(q), timer |-> t, err |-> fail]
  ELSE IF TimerGet(t) = 0
    THEN [ok |-> FALSE, queue |-> Drain(q), timer |-> t, err |-> "unexpected"]
  ELSE IF TimerGet(t) < PING_TIMEOUT
    THEN IF fail = "set"
      THEN [ok |-> FALSE, queue |-> Drain(q), timer |-> t, err |-> fail]
      ELSE [ok |-> TRUE, queue |-> Drain(q), timer |-> TimerSet(INHIBIT),
            err |-> "none"]
  ELSE [ok |-> TRUE, queue |-> Drain(q), timer |-> t, err |-> "none"]

\* mutant of on_ping: a timer that reads None is taken as having nothing left
\* and re-armed like any timer below PING_TIMEOUT
on_ping_ReviveExpired(q, t, fail, k) ==
  IF fail = "recv"
    THEN [ok |-> FALSE, queue |-> q - k, timer |-> t, err |-> fail]
  ELSE IF fail = "get"
    THEN [ok |-> FALSE, queue |-> Drain(q), timer |-> t, err |-> fail]
  ELSE IF TimerGet(t) < PING_TIMEOUT
    THEN IF fail = "set"
      THEN [ok |-> FALSE, queue |-> Drain(q), timer |-> t, err |-> fail]
      ELSE [ok |-> TRUE, queue |-> Drain(q), timer |-> TimerSet(PING_TIMEOUT),
            err |-> "none"]
  ELSE [ok |-> TRUE, queue |-> Drain(q), timer |-> t, err |-> "none"]

\* mutant of on_ping: the comparison is inverted, the timer is re-armed when
\* more than PING_TIMEOUT is left
on_ping_InvertedCompare(q, t, fail, k) ==
  IF fail = "recv"
    THEN [ok |-> FALSE, queue |-> q - k, timer |-> t, err |-> fail]
  ELSE IF fail = "get"
    THEN [ok |-> FALSE, queue |-> Drain(q), timer |-> t, err |-> fail]
  ELSE IF TimerGet(t) = 0
    THEN [ok |-> FALSE, queue |-> Drain(q), timer |-> t, err |-> "unexpected"]
  ELSE IF TimerGet(t) > PING_TIMEOUT
    THEN IF fail = "set"
      THEN [ok |-> FALSE, queue |-> Drain(q), timer |-> t, err |-> fail]
      ELSE [ok |-> TRUE, queue |-> Drain(q), timer |-> TimerSet(PING_TIMEOUT),
            err |-> "none"]
  ELSE [ok |-> TRUE, queue |-> Drain(q), timer |-> t, err |-> "none"]

\* Outcome of Pingee::on_ping() on a queue of q datagrams and timer t.
\* fail names the call that fails: "recv" (recv_from, with an error other than
\* WouldBlock, after k datagrams were received), "get" (timer.get), "set"
\* (timer.set), or "none".
on_ping(q, t, fail, k) ==
  IF fail = "recv"
    THEN [ok |-> FALSE, queue |-> q - k, timer |-> t, err |-> fail]
  ELSE IF fail = "get"
    THEN [ok |-> FALSE, queue |-> Drain(q), timer |-> t, err |-> fail]
  ELSE IF TimerGet(t) = 0
    THEN [ok |-> FALSE, queue |-> Drain(q), timer |-> t, err |-> "unexpected"]
  ELSE IF TimerGet(t) < PING_TIMEOUT
    THEN IF fail = "set"
      THEN [ok |-> FALSE, queue |-> Drain(q), timer |-> t, err |-> fail]
      ELSE [ok |-> TRUE, queue |-> Drain(q), timer |-> TimerSet(PING_TIMEOUT),
            err |-> "none"]
  ELSE [ok |-> TRUE, queue |-> Drain(q), timer |-> t, err |-> "none"]

\* The failures on_ping can meet on a queue of q datagrams
PingFailures(q) ==
  {<<"none", 0>>, <<"get", 0>>, <<"set", 0>>} \cup {<<"recv", k>> : k \in 0..q}

\* -------------------------------------------------------------------- main
\* The kind of heartbeat dispatch, by the time left on Pingee.timer
BeatKind(rem) ==
  IF rem = 0 THEN "expired" ELSE IF rem < PING_TIMEOUT THEN "late" ELSE "early"

\* ghost record of a step of main: the operation, the error it ended with, and
\* what it saw before it ran: the kind of time left on Pingee.timer, whether
\* several datagrams were queued, and the line level
Step(op, err) ==
  [op |-> op, err |-> err, beat |-> BeatKind(TimerGet(pingTimer)),
   several |-> (sockQueue > 1), level |-> line]

NoStep == [op |-> "none", err |-> "none", beat |-> "expired",
           several |-> FALSE, level |-> FALSE]

Init ==
  /\ pc = "Petter_new"
  /\ result = "none"
  /\ lineLabel \in Labels
  /\ line = FALSE
  /\ petter = "none"
  /\ values = 1
  /\ petTimer = TimerNew
  /\ sockQueue = 0
  /\ sockBound = FALSE
  /\ pingTimer = TimerNew
  /\ sigBlocked = FALSE
  /\ sigPending = FALSE
  /\ registered = {}
  /\ ready = {}
  /\ events = << >>
  /\ petCount = 0
  /\ dropOk = TRUE
  /\ beats = {}
  /\ sigInLoop = FALSE
  /\ last = NoStep
  /\ sinceBeat = 0

\* What the end of the process releases: the timerfds, the socket, the poller;
\* the events of the batch not yet dispatched stay undispatched
Released ==
  /\ values' = 1
  /\ petTimer' = TimerNew
  /\ pingTimer' = TimerNew
  /\ sockQueue' = 0
  /\ sockBound' = FALSE
  /\ registered' = {}
  /\ ready' = {}
  /\ events' = IF events = << >> THEN << >> ELSE Tail(events)
  /\ UNCHANGED <<lineLabel, sigBlocked, sigPending>>

\* main returns res while the line is at level lv: the locals are dropped, and
\* a Petter that was constructed runs its Drop (whose write may fail, unseen).
Exit(res, lv) ==
  /\ pc' = "exited"
  /\ result' = res
  /\ IF petter = "alive"
       THEN \E ok \in BOOLEAN :
              /\ line' = Drop(lv, ok)
              /\ dropOk' = ok
              /\ petter' = "dropped"
       ELSE /\ line' = lv
            /\ UNCHANGED <<dropOk, petter>>
  /\ Released

\* mutant of Petter_new: the label read back is not compared with gpio_label
Petter_new_NoLabelCheck ==
  /\ pc = "Petter_new"
  /\ \E fail \in {"none", "chip", "line_info", "request", "timerfd"} :
       /\ IF fail = "none"
            THEN /\ pc' = "Poll_new"
                 /\ petter' = "alive"
                 /\ line' = FALSE
                 /\ values' = 1
                 /\ petTimer' = TimerNew
                 /\ UNCHANGED <<result, lineLabel, sockQueue, sockBound,
                                pingTimer, sigBlocked, sigPending, registered,
                                ready, events, dropOk>>
            ELSE Exit("StartupError", FALSE)
       /\ last' = Step("Petter_new", fail)
  /\ UNCHANGED <<petCount, beats, sigInLoop, sinceBeat>>

\* Petter::new(&gpio_chip, GPIO_LABEL, GPIO_LINE)?
Petter_new ==
  /\ pc = "Petter_new"
  /\ \E fail \in {"none", "chip", "line_info", "request", "timerfd"} :
       LET err == IF fail \in {"chip", "line_info"} THEN fail
                  ELSE IF lineLabel # GPIO_LABEL THEN "label"
                  ELSE fail
       IN
       /\ IF err = "none"
            THEN /\ pc' = "Poll_new"
                 /\ petter' = "alive"
                 /\ line' = FALSE
                 /\ values' = 1
                 /\ petTimer' = TimerNew
                 /\ UNCHANGED <<result, lineLabel, sockQueue, sockBound,
                                pingTimer, sigBlocked, sigPending, registered,
                                ready, events, dropOk>>
            ELSE Exit("StartupError", FALSE)
       /\ last' = Step("Petter_new", err)
  /\ UNCHANGED <<petCount, beats, sigInLoop, sinceBeat>>

\* Poll::new()?
Poll_new ==
  /\ pc = "Poll_new"
  /\ \E ok \in BOOLEAN :
       /\ IF ok THEN /\ pc' = "Pingee_new"
                     /\ UNCHANGED <<result, lineLabel, line, petter, values,
                                    petTimer, sockQueue, sockBound, pingTimer,
                                    sigBlocked, sigPending, registered, ready,
                                    events, dropOk>>
                ELSE Exit("StartupError", line)
       /\ last' = Step("Poll_new", IF ok THEN "none" ELSE "poll")
  /\ UNCHANGED <<petCount, beats, sigInLoop, sinceBeat>>

\* Pingee::new()?: TimerFd::new, timer.set(INHIBIT), UdpSocket::bind(ADDRESS)
Pingee_new ==
  /\ pc = "Pingee_new"
  /\ \E fail \in {"none", "timerfd", "set", "bind"} :
       /\ IF fail = "none"
            THEN /\ pc' = "signals"
                 /\ pingTimer' = TimerSet(INHIBIT)
                 /\ sockBound' = TRUE
                 /\ UNCHANGED <<result, lineLabel, line, petter, values,
                                petTimer, sockQueue, sigBlocked, sigPending,
                                registered, ready, events, dropOk>>
            ELSE Exit("StartupError", line)
       /\ last' = Step("Pingee_new", fail)
  /\ UNCHANGED <<petCount, beats, sigInLoop, sinceBeat>>

\* mask.thread_block()?; SignalFd::with_flags(&mask, SFD_NONBLOCK)?
SignalSetup ==
  /\ pc = "signals"
  /\ \E fail \in {"none", "thread_block", "signalfd"} :
       /\ IF fail = "none"
            THEN /\ pc' = "register"
                 /\ sigBlocked' = TRUE
                 /\ UNCHANGED <<result, lineLabel, line, petter, values,
                                petTimer, sockQueue, sockBound, pingTimer,
                                sigPending, registered, ready, events, dropOk>>
            ELSE Exit("StartupError", line)
       /\ last' = Step("signals", fail)
  /\ UNCHANGED <<petCount, beats, sigInLoop, sinceBeat>>

\* The tokens whose source is readable now (what a fresh registration reports)
Readable ==
  (IF sockQueue > 0 THEN {PING} ELSE {})
    \cup (IF petTimer.expired THEN {PET} ELSE {})
    \cup (IF pingTimer.expired THEN {TIMEOUT} ELSE {})
    \cup (IF sigPending THEN {SIGNAL} ELSE {})

\* The four registry.register(..)? calls
Register ==
  /\ pc = "register"
  /\ \E ok \in BOOLEAN :
       /\ IF ok THEN /\ pc' = "first_pet"
                     /\ registered' = {PING, PET, TIMEOUT, SIGNAL}
                     /\ ready' = Readable
                     /\ UNCHANGED <<result, lineLabel, line, petter, values,
                                    petTimer, sockQueue, sockBound, pingTimer,
                                    sigBlocked, sigPending, events, dropOk>>
                ELSE Exit("StartupError", line)
       /\ last' = Step("register", IF ok THEN "none" ELSE "register")
  /\ UNCHANGED <<petCount, beats, sigInLoop, sinceBeat>>

\* ghost count of successful pet() calls; above MaxPets only its parity is kept
CountPet(n) == IF n >= MaxPets THEN n - 1 ELSE n + 1

\* mutant of FirstPet: main enters the loop without the initial pet()
FirstPet_Skipped ==
  /\ pc = "first_pet"
  /\ pc' = "poll"
  /\ last' = Step("pet", "none")
  /\ UNCHANGED <<result, lineLabel, line, petter, values, petTimer, sockQueue,
                 sockBound, pingTimer, sigBlocked, sigPending, registered,
                 ready, events, petCount, dropOk, beats, sigInLoop, sinceBeat>>

\* petter.pet()? before the loop
FirstPet ==
  /\ pc = "first_pet"
  /\ \E fail \in {"none", "set_values", "set"} :
       LET r == pet(values, line, petTimer, fail) IN
       /\ IF r.ok THEN /\ pc' = "poll"
                       /\ values' = r.values
                       /\ petTimer' = r.timer
                       /\ line' = r.line
                       /\ petCount' = CountPet(petCount)
                       /\ UNCHANGED <<result, lineLabel, petter, sockQueue,
                                      sockBound, pingTimer, sigBlocked,
                                      sigPending, registered, ready, events,
                                      dropOk>>
                  ELSE /\ Exit("StartupError", r.line)
                       /\ UNCHANGED petCount
       /\ last' = Step("pet", r.err)
  /\ UNCHANGED <<beats, sigInLoop, sinceBeat>>

\* ---------------------------------------------------------- the reactor loop
\* The orders in which poll() may report a set of ready tokens
Orders(S) ==
  { o \in [1..Cardinality(S) -> S] :
      \A i, j \in 1..Cardinality(S) : o[i] = o[j] => i = j }

\* poll.poll(&mut events, None)? returning: it blocks until a source is ready
\* and reports every pending readiness edge as one batch, in some order
Poll ==
  /\ pc = "poll"
  /\ ready # {}
  /\ \E o \in Orders(ready) : events' = o
  /\ ready' = {}
  /\ pc' = "dispatch"
  /\ last' = NoStep
  /\ UNCHANGED <<result, lineLabel, line, petter, values, petTimer, sockQueue,
                 sockBound, pingTimer, sigBlocked, sigPending, registered,
                 dropOk, petCount, beats, sigInLoop, sinceBeat>>

\* poll.poll(&mut events, None)? failing (epoll_wait returns an error)
PollError ==
  /\ pc = "poll"
  /\ Exit("PollError", line)
  /\ last' = Step("poll", "poll")
  /\ UNCHANGED <<petCount, beats, sigInLoop, sinceBeat>>

\* The handler returned Ok: the for loop takes the next event, or polls again
Continue ==
  /\ pc' = IF Tail(events) = << >> THEN "poll" ELSE "dispatch"
  /\ events' = Tail(events)
  /\ UNCHANGED <<result, lineLabel, petter, sockBound, sigBlocked, sigPending,
                 registered, ready, dropOk>>

\* mutant of DispatchPing: a handled heartbeat also pets the watchdog
DispatchPing_AlsoPets ==
  /\ pc = "dispatch"
  /\ Head(events) = PING
  /\ \E f \in PingFailures(sockQueue) :
       LET r == on_ping(sockQueue, pingTimer, f[1], f[2])
           p == pet(values, line, petTimer, "none")
       IN
       /\ IF r.ok THEN /\ Continue
                       /\ sockQueue' = r.queue
                       /\ pingTimer' = r.timer
                       /\ line' = p.line
                       /\ values' = p.values
                       /\ petTimer' = p.timer
                  ELSE Exit("HandlerError", line)
       /\ beats' = IF r.err \in {"recv", "get"} THEN beats
                   ELSE beats \cup ({BeatKind(TimerGet(pingTimer))} \ {"expired"})
       /\ last' = Step("on_ping", r.err)
  /\ UNCHANGED <<petCount, sigInLoop, sinceBeat>>

\* PING => pingee.on_ping()?: what the arm does to the program
HandlePing ==
  /\ pc = "dispatch"
  /\ Head(events) = PING
  /\ \E f \in PingFailures(sockQueue) :
       LET r == on_ping(sockQueue, pingTimer, f[1], f[2]) IN
       /\ IF r.ok THEN /\ Continue
                       /\ sockQueue' = r.queue
                       /\ pingTimer' = r.timer
                       /\ UNCHANGED <<line, values, petTimer>>
                  ELSE Exit("HandlerError", line)
       /\ beats' = IF r.err \in {"recv", "get"} THEN beats
                   ELSE beats \cup ({BeatKind(TimerGet(pingTimer))} \ {"expired"})
       /\ last' = Step("on_ping", r.err)
  /\ UNCHANGED <<petCount, sigInLoop>>

\* PING => pingee.on_ping()?
DispatchPing ==
  /\ HandlePing
  /\ UNCHANGED sinceBeat

\* mutant of DispatchPet: the Result of on_pet() is dropped instead of
\* propagated with ?, and the loop goes on
DispatchPet_Swallow ==
  /\ pc = "dispatch"
  /\ Head(events) = PET
  /\ \E fail \in {"none", "wait", "set_values", "set"} :
       LET r == on_pet(values, line, petTimer, fail) IN
       /\ Continue
       /\ values' = r.values
       /\ petTimer' = r.timer
       /\ line' = r.line
       /\ petCount' = IF r.ok THEN CountPet(petCount) ELSE petCount
       /\ UNCHANGED <<sockQueue, pingTimer>>
       /\ last' = Step("on_pet", r.err)
  /\ UNCHANGED <<beats, sigInLoop, sinceBeat>>

\* PET => petter.on_pet()?
DispatchPet ==
  /\ pc = "dispatch"
  /\ Head(events) = PET
  /\ \E fail \in {"none", "wait", "set_values", "set"} :
       LET r == on_pet(values, line, petTimer, fail) IN
       /\ IF r.ok THEN /\ Continue
                       /\ values' = r.values
                       /\ petTimer' = r.timer
                       /\ line' = r.line
                       /\ petCount' = CountPet(petCount)
                       /\ UNCHANGED <<sockQueue, pingTimer>>
                  ELSE /\ Exit("HandlerError", r.line)
                       /\ UNCHANGED petCount
       /\ last' = Step("on_pet", r.err)
  /\ UNCHANGED <<beats, sigInLoop, sinceBeat>>

\* mutants of DispatchTimeout: the arm does not leave the loop; ...
DispatchTimeout_Ignored ==
  /\ pc = "dispatch"
  /\ Head(events) = TIMEOUT
  /\ Continue
  /\ last' = Step("timeout", "none")
  /\ UNCHANGED <<line, values, petTimer, sockQueue, pingTimer, petCount,
                 beats, sigInLoop, sinceBeat>>

\* ... the arm yields its error but leaves only the for loop; ...
DispatchTimeout_BreakInner ==
  /\ pc = "dispatch"
  /\ Head(events) = TIMEOUT
  /\ pc' = "poll"
  /\ result' = "Ping timeout"
  /\ events' = << >>
  /\ last' = Step("timeout", "Ping timeout")
  /\ UNCHANGED <<lineLabel, line, petter, values, petTimer, sockQueue,
                 sockBound, pingTimer, sigBlocked, sigPending, registered,
                 ready, petCount, dropOk, beats, sigInLoop, sinceBeat>>

\* ... the arm leaves the loop with Ok(()).
DispatchTimeout_Ok ==
  /\ pc = "dispatch"
  /\ Head(events) = TIMEOUT
  /\ Exit("Ok", line)
  /\ last' = Step("timeout", "none")
  /\ UNCHANGED <<petCount, beats, sigInLoop, sinceBeat>>

\* TIMEOUT => break 'outer Err(anyhow!("Ping timeout"))
DispatchTimeout ==
  /\ pc = "dispatch"
  /\ Head(events) = TIMEOUT
  /\ Exit("Ping timeout", line)
  /\ last' = Step("timeout", "Ping timeout")
  /\ UNCHANGED <<petCount, beats, sigInLoop, sinceBeat>>

\* mutant of DispatchSignal: the arm does not leave the loop
DispatchSignal_Ignored ==
  /\ pc = "dispatch"
  /\ Head(events) = SIGNAL
  /\ Continue
  /\ last' = Step("signal", "none")
  /\ UNCHANGED <<line, values, petTimer, sockQueue, pingTimer, petCount,
                 beats, sigInLoop, sinceBeat>>

\* mutant of DispatchSignal: the batch is searched for SIGNAL before the
\* events are taken in order
DispatchSignal_AnyPosition ==
  /\ pc = "dispatch"
  /\ SIGNAL \in {events[i] : i \in 1..Len(events)}
  /\ Exit("Ok", line)
  /\ last' = Step("signal", "none")
  /\ UNCHANGED <<petCount, beats, sigInLoop, sinceBeat>>

\* SIGNAL => break 'outer Ok(())
DispatchSignal ==
  /\ pc = "dispatch"
  /\ Head(events) = SIGNAL
  /\ Exit("Ok", line)
  /\ last' = Step("signal", "none")
  /\ UNCHANGED <<petCount, beats, sigInLoop, sinceBeat>>

\* ---------------------------------------------------------- the environment
\* main is blocked in poll() with nothing to report (a ready source makes
\* poll() return at once), so time can pass
Blocked == pc = "poll" /\ ready = {}

\* The time until the next expiry of an armed timer
NextExpiry ==
  LET armed == {t \in {petTimer, pingTimer} : TimerArmed(t)}
  IN  CHOOSE d \in {TimerGet(t) : t \in armed} :
        \A t \in armed : d <= TimerGet(t)

\* Time passes until the next timer expires: what it does to the program
Elapse ==
  /\ Blocked
  /\ TimerArmed(petTimer) \/ TimerArmed(pingTimer)
  /\ petTimer' = TimerTick(petTimer, NextExpiry)
  /\ pingTimer' = TimerTick(pingTimer, NextExpiry)
  /\ ready' = ((IF petTimer'.expired THEN {PET} ELSE {})
                 \cup (IF pingTimer'.expired THEN {TIMEOUT} ELSE {}))
               \cap registered
  /\ last' = NoStep
  /\ UNCHANGED <<pc, result, lineLabel, line, petter, values, sockQueue,
                 sockBound, sigBlocked, sigPending, registered, events,
                 petCount, dropOk, beats, sigInLoop>>

\* Time passes until the next timer expires
Tick ==
  /\ Elapse
  /\ UNCHANGED sinceBeat

\* A heartbeat datagram arrives on the bound socket
Datagram ==
  /\ pc # "exited"
  /\ sockBound
  /\ sockQueue < MaxQueue
  /\ sockQueue' = sockQueue + 1
  /\ ready' = ready \cup ({PING} \cap registered)
  /\ UNCHANGED <<pc, result, lineLabel, line, petter, values, petTimer,
                 sockBound, pingTimer, sigBlocked, sigPending, registered,
                 events, petCount, dropOk, beats, sigInLoop, last, sinceBeat>>

\* One of SIGTERM, SIGHUP, SIGINT is sent to the process: pending once the mask
\* blocks it (main never reads the SignalFd, so a further signal sent while
\* one is pending changes nothing and is left out); before that its default
\* disposition kills the process, and no destructor runs.
Signal ==
  /\ pc # "exited"
  /\ \E s \in Mask :
       IF sigBlocked
         THEN /\ ~sigPending
              /\ sigPending' = TRUE
              /\ ready' = ready \cup ({SIGNAL} \cap registered)
              /\ sigInLoop' = (sigInLoop \/ pc \in {"poll", "dispatch"})
              /\ UNCHANGED <<pc, result, lineLabel, line, petter, values,
                             petTimer, sockQueue, sockBound, pingTimer,
                             sigBlocked, registered, events, dropOk, last>>
         ELSE /\ pc' = "exited"
              /\ result' = "Killed"
              /\ Released
              /\ last' = Step(s, "killed")
              /\ UNCHANGED <<line, petter, dropOk, sigInLoop>>
  /\ UNCHANGED <<petCount, beats, sinceBeat>>

Next ==
  \/ Petter_new
  \/ Poll_new
  \/ Pingee_new
  \/ SignalSetup
  \/ Register
  \/ FirstPet
  \/ Poll
  \/ PollError
  \/ DispatchPing
  \/ DispatchPet
  \/ DispatchTimeout
  \/ DispatchSignal
  \/ Tick
  \/ Datagram
  \/ Signal

Spec == Init /\ [][Next]_vars

TypeOK ==
  /\ pc \in {"Petter_new", "Poll_new", "Pingee_new", "signals", "register",
             "first_pet", "poll", "dispatch", "exited"}
  /\ result \in {"none", "Ok", "Ping timeout", "StartupError",
                 "HandlerError", "PollError", "Killed"}
  /\ line \in BOOLEAN
  /\ petter \in {"none", "alive", "dropped"}
  /\ values \in 1..2
  /\ sockQueue \in 0..MaxQueue
  /\ sigPending \in BOOLEAN
  /\ ready \subseteq registered
  /\ petCount \in 0..MaxPets
  /\ beats \subseteq {"early", "late"}
  /\ sinceBeat \in 0..PING_TIMEOUT

\* Fairness of main: it is a running thread, so a poll() with a ready source
\* returns and the match arm of the event at hand runs.  Nothing is assumed of
\* the environment (time, datagrams, signals, failures).
FairSpec ==
  /\ Spec
  /\ WF_vars(Poll)
  /\ WF_vars(DispatchPing)
  /\ WF_vars(DispatchPet)
  /\ WF_vars(DispatchTimeout)
  /\ WF_vars(DispatchSignal)

\* ------------------------------------------------ gaps between heartbeats
\* The same program with the time since the last handled heartbeat (or since
\* startup) measured: sinceBeat counts up to PING_TIMEOUT and stays there
\* once a gap has reached it.  Until then the sender sends when the gap is
\* one of Gaps; after that, at any instant.
TickGap ==
  /\ Elapse
  /\ sinceBeat' = IF sinceBeat + NextExpiry >= PING_TIMEOUT THEN PING_TIMEOUT
                  ELSE sinceBeat + NextExpiry

DatagramGap ==
  /\ sinceBeat \in Gaps \cup {PING_TIMEOUT}
  /\ Datagram

DispatchPingGap ==
  /\ HandlePing
  /\ sinceBeat' = IF pc' = "exited" \/ sinceBeat = PING_TIMEOUT THEN sinceBeat
                  ELSE 0

NextGap ==
  \/ Petter_new
  \/ Poll_new
  \/ Pingee_new
  \/ SignalSetup
  \/ Register
  \/ FirstPet
  \/ Poll
  \/ PollError
  \/ DispatchPingGap
  \/ DispatchPet
  \/ DispatchTimeout
  \/ DispatchSignal
  \/ TickGap
  \/ DatagramGap
  \/ Signal

GapSpec == Init /\ [][NextGap]_vars

\* fn main() -> Result<()>: the exit status of the process
ExitStatus(res) ==
  IF res = "Ok" THEN "success" ELSE IF res = "Killed" THEN "killed" ELSE "failure"

InLoop == pc \in {"poll", "dispatch"}

Exited == pc = "exited"

\* the tokens of a batch
Tokens(evs) == {evs[i] : i \in 1..Len(evs)}

\* ------------------------------------------------------------------ claims
\* C1 as claimed: in every terminated state of the daemon the watchdog line
\* is inactive.
C1_LineInactiveAfterExit == Exited => line = FALSE

\* C1, amended: in every terminated state of the daemon the watchdog line is
\* inactive unless the write of Petter's destructor failed (the failure is
\* swallowed and the line keeps the level it had).
C1_LineInactiveUnlessDropFailed == (Exited /\ dropOk) => line = FALSE

\* C1 witness: main left the loop on a handler failure while the line was
\* active, the Petter was dropped and the line is inactive.
C1_Witness ==
  /\ Exited
  /\ result = "HandlerError"
  /\ petter = "dropped"
  /\ dropOk
  /\ last.level = TRUE
  /\ line = FALSE

\* C4: while the Petter lives, the line is active exactly when the number of
\* successful pet() calls so far is odd; it is inactive before the first call.
C4_LevelAlternates ==
  (petter = "alive" /\ ~Exited) => (line = (petCount % 2 = 1))

\* C4 witness: after the third successful pet() the line is active again.
C4_Witness == petter = "alive" /\ petCount = 3 /\ line = TRUE /\ InLoop

\* the last step was a step of the loop (not of startup)
LoopStep == last.op \in {"poll", "on_ping", "on_pet", "timeout", "signal"}

\* this step is a dispatch of on_ping that returned Ok
OnPingOk ==
  /\ pc = "dispatch"
  /\ Head(events) = PING
  /\ pc' \in {"poll", "dispatch"}
  /\ events' = Tail(events)

\* C2 as claimed, taken in the runs where no call fails: when a signal was
\* received while the loop was running and the wake that ended the loop
\* reported it, main ends with Ok (Signaled) and the line inactive.
C2_SignalAlwaysSignaled ==
  (Exited /\ sigInLoop /\ dropOk
     /\ (last.op = "signal"
           \/ (last.op = "timeout" /\ SIGNAL \in Tokens(events))))
    => (result = "Ok" /\ line = FALSE)

\* C2, amended: a termination signal pending while the loop runs always ends
\* the reactor, no later than the batch that reports it (the SIGNAL event is
\* never lost); main ends with Ok exactly when the SIGNAL arm is the one that
\* ends it, and with a failure when an event dispatched before it ends the
\* loop first (TIMEOUT: "Ping timeout"; a failing handler or poll); the line
\* ends inactive unless the destructor's write fails.
C2_SignalEndsLoop ==
  /\ (InLoop /\ sigPending) ~> Exited
  /\ [](InLoop /\ sigPending => SIGNAL \in ready \cup Tokens(events))
  /\ []((Exited /\ sigInLoop) =>
          /\ result \in {"Ok", "Ping timeout", "HandlerError", "PollError"}
          /\ (result = "Ok" <=> last.op = "signal")
          /\ (dropOk => line = FALSE))

\* C2 witness: a signal received in the loop ended main with Ok while the line
\* was active and other events of the same wake were left undispatched.
C2_Witness ==
  /\ Exited
  /\ sigInLoop
  /\ result = "Ok"
  /\ events # << >>
  /\ last.level = TRUE
  /\ line = FALSE

\* C3 as claimed, taken in the runs where no system call fails: when main
\* leaves the loop with the countdown at zero and no signal delivered, it
\* ends with the Timeout outcome and the line inactive.
C3_ExpiryGivesTimeout ==
  (Exited /\ LoopStep /\ last.beat = "expired" /\ ~sigPending
     /\ last.err \in {"Ping timeout", "unexpected"} /\ dropOk)
    => (result = "Ping timeout" /\ line = FALSE)

\* C3, amended: once the inactivity countdown has expired the reactor always
\* terminates; with no signal delivered it terminates with a failure: "Ping
\* timeout" when the TIMEOUT arm runs, a handler failure when a PING event is
\* dispatched before it (on_ping finds the timer expired) or a call fails; the
\* line ends inactive unless the destructor's write fails.
C3_ExpiryEndsLoop ==
  /\ (InLoop /\ pingTimer.expired) ~> Exited
  /\ [](InLoop /\ pingTimer.expired => TIMEOUT \in ready \cup Tokens(events))
  /\ []((Exited /\ LoopStep /\ last.beat = "expired" /\ ~sigPending) =>
          /\ result \in {"Ping timeout", "HandlerError", "PollError"}
          /\ (result = "Ping timeout" <=> last.op = "timeout")
          /\ (dropOk => line = FALSE))

\* C3 witness: in steady state (a heartbeat had re-armed the countdown to
\* PING_TIMEOUT) the countdown expired and main ended with "Ping timeout",
\* the line driven from active to inactive.
C3_Witness ==
  /\ Exited
  /\ result = "Ping timeout"
  /\ "late" \in beats
  /\ sigPending = FALSE
  /\ last.level = TRUE
  /\ line = FALSE

\* C5: a dispatch of on_ping that runs with at least PING_TIMEOUT left on the
\* inactivity timer leaves the time left unchanged.
C5_EarlyBeatKeepsRemaining ==
  [][(OnPingOk /\ TimerGet(pingTimer) >= PING_TIMEOUT)
       => TimerGet(pingTimer') = TimerGet(pingTimer)]_vars

\* C5 witness: on_ping ran with exactly PING_TIMEOUT left of the startup grace
\* and the timer still shows PING_TIMEOUT of the INHIBIT arming.
C5_Witness ==
  /\ InLoop
  /\ last.op = "on_ping"
  /\ last.err = "none"
  /\ last.beat = "early"
  /\ pingTimer.set = INHIBIT
  /\ TimerGet(pingTimer) = PING_TIMEOUT

\* C6 as claimed, taken in the runs where no system call fails: after a
\* dispatch of on_ping that ran with less than PING_TIMEOUT left, the time
\* left is PING_TIMEOUT.
C6_LateBeatSetsTimeout ==
  (last.op = "on_ping" /\ last.beat \in {"late", "expired"}
     /\ last.err \in {"none", "unexpected"})
    => TimerGet(pingTimer) = PING_TIMEOUT

\* C6, amended: a dispatch of on_ping that runs with less than PING_TIMEOUT
\* but more than nothing left, and returns Ok, sets the time left to exactly
\* PING_TIMEOUT; one that runs with nothing left (the countdown expired) does
\* not re-arm the timer: it fails and main exits with a handler failure.
C6_LateBeatRearms ==
  /\ [][(OnPingOk /\ TimerGet(pingTimer) < PING_TIMEOUT)
          => (TimerGet(pingTimer) > 0 /\ pingTimer' = TimerSet(PING_TIMEOUT))]_vars
  /\ [][(pc = "dispatch" /\ Head(events) = PING /\ events' # events
           /\ TimerGet(pingTimer) = 0)
          => (pc' = "exited" /\ result' = "HandlerError")]_vars

\* C6 witness: on_ping ran with less than PING_TIMEOUT left and the timer was
\* just armed with PING_TIMEOUT.
C6_Witness ==
  /\ InLoop
  /\ last.op = "on_ping"
  /\ last.err = "none"
  /\ last.beat = "late"
  /\ pingTimer = TimerSet(PING_TIMEOUT)

\* C7: as long as no heartbeat was handled with less than PING_TIMEOUT left,
\* the inactivity timer is the one armed with INHIBIT at startup, whatever
\* heartbeats were handled earlier; and when main then ends with "Ping
\* timeout", the whole of INHIBIT has elapsed since startup.
C7_EarlyBeatsKeepGraceDeadline ==
  /\ []((InLoop /\ "late" \notin beats) => pingTimer.set = INHIBIT)
  /\ [][(result = "none" /\ result' = "Ping timeout" /\ "late" \notin beats)
          => (pingTimer.set = INHIBIT /\ pingTimer.elapsed = INHIBIT)]_vars

\* C7 witness: main ended with "Ping timeout" after heartbeats that were all
\* handled with at least PING_TIMEOUT left.
C7_Witness == Exited /\ result = "Ping timeout" /\ beats = {"early"}

\* C8: an outcome exists exactly when main has left the loop, and from then
\* on nothing happens: no second outcome, no dispatch, no pet.
C8_OutcomeOnceAndFinal ==
  /\ [](result # "none" <=> Exited)
  /\ [][result # "none" =>
          (result' = result /\ pc' = pc /\ events' = events
             /\ petCount' = petCount /\ line' = line /\ last' = last)]_vars

\* C8 witness: main ended with "Ping timeout" while a pet-timer event of the
\* same wake was still undispatched.
C8_Witness == Exited /\ result = "Ping timeout" /\ PET \in Tokens(events)

\* C9: a dispatch of on_ping that returns Ok leaves the socket queue empty,
\* however many datagrams were queued; the socket gets a new readiness edge
\* only when a datagram arrives (or at registration); and queued datagrams
\* always have a readiness report pending.
C9_DrainsWholeQueue ==
  /\ [][OnPingOk => sockQueue' = 0]_vars
  /\ [][(PING \in ready' /\ PING \notin ready)
          => (sockQueue' > sockQueue \/ pc = "register")]_vars
  /\ []((InLoop /\ sockQueue > 0) => PING \in ready \cup Tokens(events))

\* C9 witness: on_ping ran on a queue of several datagrams, the queue is empty
\* and the socket is not reported ready.
C9_Witness ==
  /\ InLoop
  /\ last.op = "on_ping"
  /\ last.err = "none"
  /\ last.several
  /\ sockQueue = 0
  /\ PING \notin ready

\* C10: the process exits with success exactly when the SIGNAL arm ended the
\* loop, which takes a pending signal; every other end is not a success.
C10_SuccessIffSignal ==
  Exited =>
    /\ (ExitStatus(result) = "success" <=> last.op = "signal")
    /\ (last.op = "signal" => sigPending)
    /\ (last.op \in {"timeout", "on_ping", "on_pet", "poll", "pet", "register",
                     "signals", "Pingee_new", "Poll_new", "Petter_new"}
          => ExitStatus(result) = "failure")

\* C10 witness: the process exited with success from the SIGNAL arm.
C10_Witness ==
  Exited /\ ExitStatus(result) = "success" /\ last.op = "signal"


\* C11: when the label stored for the line differs from GPIO_LABEL, no Petter
\* ever exists (the line is never requested, nothing is written to it, also
\* not by a destructor), no pet is performed, main never gets past
\* Petter::new, and when Petter::new returns it fails: main exits with a
\* failure (the chip or the line information failing first, or the label).
C11_LabelMismatchFailsStartup ==
  lineLabel # GPIO_LABEL =>
    /\ petter = "none"
    /\ line = FALSE
    /\ petCount = 0
    /\ registered = {}
    /\ pc \in {"Petter_new", "exited"}
    /\ (Exited /\ result # "Killed") =>
         /\ ExitStatus(result) = "failure"
         /\ result = "StartupError"
         /\ last.op = "Petter_new"
         /\ last.err \in {"label", "chip", "line_info"}

\* C11 witness: Petter::new read a label other than GPIO_LABEL and main
\* exited with a startup failure, no Petter constructed.
C11_Witness ==
  /\ Exited
  /\ lineLabel # GPIO_LABEL
  /\ last.op = "Petter_new"
  /\ last.err = "label"
  /\ result = "StartupError"
  /\ petter = "none"


\* C12: every successful pet() leaves the pet timer freshly armed with the
\* duration of the phase it entered: PET_ON when it drove the line active,
\* PET_OFF when it drove it inactive; so while the loop runs the timer's
\* arming always matches the line level, and the schedule's position is
\* always one of its two items (next() never yields None).
C12_TimerMatchesPhase ==
  /\ [][petCount' # petCount =>
          petTimer' = TimerSet(IF line' THEN PET_ON ELSE PET_OFF)]_vars
  /\ [](InLoop => petTimer.set = (IF line THEN PET_ON ELSE PET_OFF))
  /\ [](values \in 1..Len(ValuesCycle))

\* C12 witness: the second pet() (the first from the loop) drove the line
\* inactive and armed the timer with PET_OFF.
C12_Witness ==
  /\ InLoop
  /\ last.op = "on_pet"
  /\ last.err = "none"
  /\ petCount = 2
  /\ line = FALSE
  /\ petTimer = TimerSet(PET_OFF)


\* C13: main enters the loop only from the initial pet(), with all four
\* sources registered and exactly one pet() performed: in the first state of
\* the loop the line is active, the pet timer is armed with PET_ON and the
\* inactivity timer is the INHIBIT arming of Pingee::new, not expired; and
\* the loop is never entered a second time.
C13_RunningEntry ==
  /\ [][(~InLoop /\ InLoop') =>
          /\ pc = "first_pet"
          /\ pc' = "poll"
          /\ registered' = {PING, PET, TIMEOUT, SIGNAL}
          /\ petCount = 0
          /\ petCount' = 1
          /\ line' = TRUE
          /\ petTimer' = TimerSet(PET_ON)
          /\ pingTimer'.set = INHIBIT
          /\ TimerArmed(pingTimer')]_vars
  /\ [](InLoop => registered = {PING, PET, TIMEOUT, SIGNAL})

\* C13 witness: the first state of the loop, right after the initial pet().
C13_Witness ==
  /\ pc = "poll"
  /\ last.op = "pet"
  /\ last.err = "none"
  /\ petCount = 1
  /\ line = TRUE
  /\ petTimer = TimerSet(PET_ON)
  /\ pingTimer = TimerSet(INHIBIT)
  /\ registered = {PING, PET, TIMEOUT, SIGNAL}


\* this step is a dispatch of on_ping or on_pet
HandlerStep ==
  /\ pc = "dispatch"
  /\ Head(events) \in {PING, PET}
  /\ events' # events

\* C14: a dispatch of on_ping or on_pet in which a call fails ends main in
\* that very step with a failure exit, the rest of the batch left
\* undispatched and no pet counted; and once main has ended nothing is
\* dispatched, retried or petted any more.
C14_HandlerFailureEndsLoop ==
  /\ [][(HandlerStep /\ last'.err # "none") =>
          /\ pc' = "exited"
          /\ result' = "HandlerError"
          /\ ExitStatus(result') = "failure"
          /\ events' = Tail(events)
          /\ petCount' = petCount]_vars
  /\ [][(HandlerStep /\ pc' = "exited") => last'.err # "none"]_vars
  /\ [][Exited => (Exited' /\ events' = events /\ petCount' = petCount
                     /\ last' = last)]_vars

\* C14 witness: the line write of a pet dispatch failed and main ended with a
\* handler failure while another event of the same batch was still to be
\* dispatched.
C14_Witness ==
  /\ Exited
  /\ result = "HandlerError"
  /\ last.op = "on_pet"
  /\ last.err = "set_values"
  /\ events # << >>


\* the match arm of a token, as the ghost record names it
ArmOf(tok) ==
  IF tok = PING THEN "on_ping"
  ELSE IF tok = PET THEN "on_pet"
  ELSE IF tok = TIMEOUT THEN "timeout"
  ELSE "signal"

\* C15: a batch is the set of ready sources in the order poll() reports them;
\* each dispatch takes the first event not yet dispatched and runs its arm;
\* a TIMEOUT or SIGNAL event at the head ends main with its outcome ("Ping
\* timeout", Ok); and once main has ended the events behind it stay
\* undispatched for ever.
C15_BatchInReportedOrder ==
  /\ [][(pc = "poll" /\ pc' = "dispatch") =>
          /\ Tokens(events') = ready
          /\ Len(events') = Cardinality(ready)]_vars
  /\ [][(pc = "dispatch" /\ events' # events) =>
          /\ events' = Tail(events)
          /\ last'.op = ArmOf(Head(events))]_vars
  /\ [][(pc = "dispatch" /\ events' # events
           /\ Head(events) \in {TIMEOUT, SIGNAL}) =>
          /\ pc' = "exited"
          /\ result' = (IF Head(events) = TIMEOUT THEN "Ping timeout" ELSE "Ok")]_vars
  /\ [][Exited => (events' = events /\ last' = last /\ result' = result)]_vars

\* C15 witness: one wake reported the signal before the inactivity timer;
\* main ended with Ok and the TIMEOUT event was never dispatched.
C15_Witness ==
  /\ Exited
  /\ result = "Ok"
  /\ last.op = "signal"
  /\ TIMEOUT \in Tokens(events)


\* C16: once the inactivity timer has expired nothing re-arms it while the
\* loop runs, and the next dispatch of a PING or TIMEOUT event ends main with
\* a failure: on_ping fails on the expired timer, the TIMEOUT arm returns
\* "Ping timeout".
C16_ExpiredCountdownIsFinal ==
  /\ [][(InLoop /\ InLoop' /\ pingTimer.expired) => pingTimer' = pingTimer]_vars
  /\ [][(pc = "dispatch" /\ events' # events /\ pingTimer.expired
           /\ Head(events) \in {PING, TIMEOUT}) =>
          /\ pc' = "exited"
          /\ ExitStatus(result') = "failure"
          /\ result' = (IF Head(events) = PING THEN "HandlerError"
                        ELSE "Ping timeout")]_vars
  /\ [](InLoop => (pingTimer.expired <=> TimerGet(pingTimer) = 0))

\* C16 witness: a heartbeat was dispatched after the expiry and before the
\* TIMEOUT event; on_ping found the timer expired and main ended with a
\* handler failure, the TIMEOUT event undispatched.
C16_Witness ==
  /\ Exited
  /\ result = "HandlerError"
  /\ last.op = "on_ping"
  /\ last.err = "unexpected"
  /\ last.beat = "expired"
  /\ TIMEOUT \in Tokens(events)


\* C17: while the loop runs, the pet timer is either armed with nothing to
\* read, or expired with its PET event still to be dispatched (pending in the
\* poller or in the batch at hand); and a pet dispatch that returns Ok leaves
\* the timer freshly armed, once.
C17_PetTimerNeverStalls ==
  /\ [](InLoop =>
          \/ (TimerArmed(petTimer) /\ ~petTimer.expired)
          \/ (~TimerArmed(petTimer) /\ petTimer.expired
                /\ PET \in ready \cup Tokens(events)))
  /\ [][(pc = "dispatch" /\ Head(events) = PET /\ events' # events
           /\ pc' # "exited") =>
          /\ petTimer.expired
          /\ petTimer' = TimerSet(petTimer'.set)
          /\ TimerArmed(petTimer')
          /\ PET \notin ready' \cup Tokens(events')]_vars

\* C17 witness: main waits in poll() with the PET_OFF arming expired and its
\* event not yet reported.
C17_Witness ==
  /\ pc = "poll"
  /\ petTimer.expired
  /\ petTimer.set = PET_OFF
  /\ PET \in ready
  /\ events = << >>


\* this step is a dispatch of on_pet that returned Ok
OnPetOk ==
  /\ pc = "dispatch"
  /\ Head(events) = PET
  /\ pc' \in {"poll", "dispatch"}
  /\ events' = Tail(events)

\* C18: a dispatch of on_ping leaves the line level, the position in the
\* toggle schedule, the pet timer and the number of pets as they are (when it
\* fails, the only change of the line is the destructor driving it
\* inactive); a dispatch of on_pet leaves the inactivity timer and the queue
\* of the heartbeat socket as they are.
C18_HandlersDoNotInterfere ==
  /\ [][OnPingOk => (line' = line /\ values' = values /\ petTimer' = petTimer
                       /\ petCount' = petCount)]_vars
  /\ [][(pc = "dispatch" /\ Head(events) = PING /\ pc' = "exited") =>
          (petCount' = petCount /\ line' \in {line, FALSE})]_vars
  /\ [][OnPetOk => (pingTimer' = pingTimer /\ sockQueue' = sockQueue
                      /\ beats' = beats)]_vars

\* C18 witness: on_pet ran with a datagram queued and part of the re-armed
\* countdown elapsed, and both are as they were.
C18_Witness ==
  /\ InLoop
  /\ last.op = "on_pet"
  /\ last.err = "none"
  /\ sockQueue > 0
  /\ pingTimer.set = PING_TIMEOUT
  /\ pingTimer.elapsed > 0


\* C19: as long as every gap between handled heartbeats, and from startup to
\* the first, has been shorter than PING_TIMEOUT (the one running included),
\* the inactivity timer has not expired and has time left; and when main ends
\* with all gaps that short, it ends from the loop by a signal (Ok) or by a
\* failing handler or poll, or at startup: never with "Ping timeout", and
\* never because on_ping found the timer expired.
C19_SteadyBeatsNeverTimeout ==
  /\ (InLoop /\ sinceBeat < PING_TIMEOUT) =>
       /\ ~pingTimer.expired
       /\ TimerGet(pingTimer) > 0
       /\ TIMEOUT \notin ready \cup Tokens(events)
  /\ (Exited /\ sinceBeat < PING_TIMEOUT) =>
       /\ result \in {"Ok", "HandlerError", "PollError", "StartupError",
                      "Killed"}
       /\ last.op # "timeout"
       /\ last.err # "unexpected"

\* C19 witness: in steady state (the countdown re-armed by a late heartbeat)
\* 29.9 s have passed since the last handled heartbeat, the longest gap below
\* PING_TIMEOUT, and the countdown has 100 ms left.
C19_Witness ==
  /\ InLoop
  /\ "late" \in beats
  /\ pingTimer.set = PING_TIMEOUT
  /\ sinceBeat = 29900
  /\ TimerGet(pingTimer) = 100

====
